---- MODULE Spec2Model ----
(***************************************************************************)
(* Model of my_model_selectors.py: the ModelSelector base class and the    *)
(* four selection strategies SelectorConstant, SelectorBIC, SelectorDIC    *)
(* and SelectorCV.                                                         *)
(*                                                                         *)
(* One selector object is constructed (Init) and select() is called on it  *)
(* up to MaxCalls times.  The HMM trainer (GaussianHMM.fit / .score) is an *)
(* external collaborator: its outcomes are chosen nondeterministically the *)
(* first time a given input is seen and remembered afterwards, because the *)
(* trainer is run with a fixed random_state (line 40) and is therefore a   *)
(* deterministic function of its inputs.                                   *)
(*                                                                         *)
(* Numbers.  Log-likelihoods are integers.  math.log is modelled in        *)
(* thousandths (LnMilli), so a BIC score is kept multiplied by 1000.  A    *)
(* mean over a list of fixed length M is kept multiplied by M; within one  *)
(* select() call M is the same for every candidate, so every comparison    *)
(* the code makes has the same outcome on the scaled values.               *)
(***************************************************************************)
EXTENDS Integers, Sequences, FiniteSets, TLC

\* ------------------------------------------------------------------ bounds
MaxOthers == 2      \* most other words in the collection
MaxSeqs == 3        \* most sequences of this_word
MaxCalls == 2       \* select() calls made on the selector object
MaxN == 3           \* max_n_components passed to the constructor

\* ------------------------------------------------------- program constants
MinN == 2           \* min_n_components, the constructor's default
splits == 3         \* splits = 3 in SelectorCV.select
PosInf == 1000000   \* float('inf')
NegInf == -1000000  \* float('-inf')
NaN == 7777777      \* np.mean([]) : not-a-number, compares False with everything

NFeatures == 2      \* model.n_features: width of a feature vector
LogLs == {-7, -1}   \* log-likelihood values the trainer's score() may return
NConstants == {1, 3} \* values of n_constant tried (3 is the default)
WordNames == <<"A", "B", "C", "D">>

\* math.log(N) in thousandths, N = 1..8
LnTable == <<0, 693, 1099, 1386, 1609, 1792, 1946, 2079>>
LnMilli(N) == LnTable[N]

VARIABLES
    strategy,     \* which subclass the selector object is
    words,        \* self.words  : word -> list of sequences (each given by its length)
    hwords,       \* self.hwords : word -> (X, lengths)
    this_word,    \* self.this_word
    sequences,    \* self.sequences
    X,            \* self.X
    lengths,      \* self.lengths
    n_constant,   \* self.n_constant
    max_calls,    \* how many times the driver calls select() on the object
    pc,           \* "idle" | "loop" | "done" | "raised"
    idx,          \* loop variable of select()
    best_model,   \* local best_model
    best_score,   \* local lowest_score / highest_score
    scored,       \* candidates of the current call whose score reached the comparison
    returned,     \* the values select() has returned, oldest first
    fitMemo,      \* calls of GaussianHMM(...).fit made so far, with their outcome
    scoreMemo     \* calls of model.score made so far, with their outcome

vars == <<strategy, words, hwords, this_word, sequences, X, lengths, n_constant, max_calls,
          pc, idx, best_model, best_score, scored, returned, fitMemo, scoreMemo>>

config == <<strategy, words, hwords, this_word, sequences, n_constant, max_calls>>
locals == <<idx, best_model, best_score, scored>>

\* ------------------------------------------------------------------- data
Strategies == {"Constant", "BIC", "DIC", "CV"}

RECURSIVE SumSeq(_)
SumSeq(s) == IF s = <<>> THEN 0 ELSE Head(s) + SumSeq(Tail(s))

\* A feature matrix is named by the word it comes from and the indices of the
\* sequences concatenated in it.
NoData == [word |-> "", segs |-> <<>>]
None == [n |-> 0, X |-> NoData, lengths |-> <<>>]

\* The length of the i-th sequence of a word as the loader supplies it.
SeqLen(i) == IF i = 2 THEN 2 ELSE 1

\* all_word_Xlengths[w] as the loader builds it from all_word_sequences[w]:
\* every sequence concatenated, in order.
Xlengths(ws) ==
    [w \in DOMAIN ws |->
        [X |-> [word |-> w, segs |-> [i \in 1..Len(ws[w]) |-> i]], lengths |-> ws[w]]]

\* len(x): the number of feature vectors (rows) of a feature matrix
NumRows(x) == SumSeq([i \in 1..Len(x.segs) |-> words[x.word][x.segs[i]]])

\* ------------------------------------------------------------- the trainer
ScoreOut == [ok : {TRUE}, ll : LogLs] \cup {[ok |-> FALSE, ll |-> 0]}

\* Outcomes GaussianHMM(n_components=n, random_state=...).fit(x, l) can have:
\* the remembered one when the call was made before, either otherwise.
FitOutcomes(x, l, n) ==
    LET seen == {e \in fitMemo : e.X = x /\ e.lengths = l /\ e.n = n}
    IN  IF seen = {} THEN BOOLEAN ELSE {e.ok : e \in seen}

FitEntry(site, x, l, n, ok) == [site |-> site, X |-> x, lengths |-> l, n |-> n, ok |-> ok]

\* Outcomes model.score(x, l) can have (ok = FALSE: it raises).
ScoreOutcomes(model, x, l) ==
    LET seen == {e \in scoreMemo : e.model = model /\ e.X = x /\ e.lengths = l}
    IN  IF seen = {} THEN ScoreOut ELSE {e.out : e \in seen}

ScoreEntry(model, x, l, out) == [model |-> model, X |-> x, lengths |-> l, out |-> out]

\* ModelSelector.base_model(num_states), given whether the fit succeeded:
\* the model fitted on (self.X, self.lengths), or None.
base_model(num_states, ok) ==
    IF ok THEN [n |-> num_states, X |-> X, lengths |-> lengths] ELSE None

\* ------------------------------------------------------------ construction
\* The collections a selector is constructed on: k words, the t-th of them
\* this_word, which has ns sequences.  Only SelectorDIC reads the other words
\* and only SelectorBIC and SelectorCV depend on the sequences of this_word,
\* so each strategy gets the inputs that vary what it reads: SelectorDIC the
\* first of 1 to 1 + MaxOthers words, the others a word that is alone or the
\* second of two, with 1 to MaxSeqs sequences.
InputOK(s, k, t, ns) ==
    /\ t <= k
    /\ s = "DIC" => (t = 1 /\ ns = 1)
    /\ s # "DIC" => (k <= 2 /\ t = k)

\* ModelSelector.__init__, called by a driver that will call select() calls times
Construct(calls, most) ==
    /\ strategy \in Strategies
    /\ \E k \in 1..most, t \in 1..most, ns \in 1..MaxSeqs :
         /\ InputOK(strategy, k, t, ns)
         /\ this_word = WordNames[t]
         /\ words = [w \in {WordNames[i] : i \in 1..k} |->
                        IF w = WordNames[t] THEN [i \in 1..ns |-> SeqLen(i)] ELSE <<1>>]
    /\ hwords = Xlengths(words)
    /\ sequences = words[this_word]
    /\ X = hwords[this_word].X
    /\ lengths = hwords[this_word].lengths
    /\ n_constant \in NConstants
    /\ max_calls = calls
    /\ pc = "idle"
    /\ idx = 0
    /\ best_model = None
    /\ best_score = 0
    /\ scored = {}
    /\ returned = <<>>
    /\ fitMemo = {}
    /\ scoreMemo = {}

Init == Construct(1, 1 + MaxOthers)

\* The same selector with select() called MaxCalls times in a row.
InitRepeat == Construct(MaxCalls, 2)

\* ------------------------------------------------------- shared fragments
CanCall == pc \in {"idle", "done"} /\ Len(returned) < max_calls

\* A loop that runs one candidate too far: range(min, max + 2).
InRangeOneMore(i) == i >= MinN /\ i <= MaxN + 1

\* range(self.min_n_components, self.max_n_components + 1)
InRange(i) == i >= MinN /\ i <= MaxN

\* No handler: the exception leaves select().
ExceptPropagate ==
    /\ pc' = "raised"
    /\ UNCHANGED <<idx, best_model, best_score, scored>>

\* A handler that also forgets the provisional best.
ExceptReset ==
    /\ idx' = idx + 1
    /\ pc' = pc
    /\ best_model' = None
    /\ UNCHANGED <<best_score, scored>>

\* "except: continue": the candidate is dropped and the loop goes on.
ExceptContinue ==
    /\ idx' = idx + 1
    /\ pc' = pc
    /\ UNCHANGED <<best_model, best_score, scored>>

\* "return best_model"
ReturnBest ==
    /\ pc = "loop"
    /\ ~InRange(idx)
    /\ returned' = Append(returned, best_model)
    /\ pc' = "done"
    /\ UNCHANGED <<config, X, lengths, locals, fitMemo, scoreMemo>>

\* "best_model = self.base_model(self.n_constant)" and the loop's start
Begin(s, initial) ==
    /\ CanCall
    /\ strategy = s
    /\ \E ok \in FitOutcomes(X, lengths, n_constant) :
         /\ fitMemo' = fitMemo \cup {FitEntry("fallback", X, lengths, n_constant, ok)}
         /\ best_model' = base_model(n_constant, ok)
    /\ best_score' = initial
    /\ idx' = MinN
    /\ scored' = {}
    /\ pc' = "loop"
    /\ UNCHANGED <<config, X, lengths, returned, scoreMemo>>

\* --------------------------------------------------------- SelectorConstant
SelectorConstant_select ==
    /\ CanCall
    /\ strategy = "Constant"
    /\ \E ok \in FitOutcomes(X, lengths, n_constant) :
         /\ fitMemo' = fitMemo \cup {FitEntry("fallback", X, lengths, n_constant, ok)}
         /\ returned' = Append(returned, base_model(n_constant, ok))
    /\ pc' = "done"
    /\ UNCHANGED <<config, X, lengths, locals, scoreMemo>>

\* -------------------------------------------------------------- SelectorBIC
\* parameters_n = idx ** 2 + 2 * idx * model.n_features - 1
\* score = -2 * model.score(...) + parameters_n * math.log(len(self.X)), times 1000
BICScore(n, logL, N, d) == -2 * 1000 * logL + (n * n + 2 * n * d - 1) * LnMilli(N)

\* "<=" in place of "<": the last of several equal scores wins.
BICBetterOrEqual(score, lowest) == score <= lowest

\* "if score < lowest_score"
BICBetter(score, lowest) == score < lowest

SelectorBIC_begin == Begin("BIC", PosInf)

SelectorBIC_candidate ==
    /\ pc = "loop"
    /\ strategy = "BIC"
    /\ InRange(idx)
    /\ \E ok \in FitOutcomes(X, lengths, idx) :
         LET model == base_model(idx, ok) IN
         /\ fitMemo' = fitMemo \cup {FitEntry("candidate", X, lengths, idx, ok)}
         /\ IF ~ok
            THEN \* model is None: model.n_features raises
                 /\ ExceptContinue
                 /\ UNCHANGED scoreMemo
            ELSE \E out \in ScoreOutcomes(model, X, lengths) :
                 /\ scoreMemo' = scoreMemo \cup {ScoreEntry(model, X, lengths, out)}
                 /\ IF ~out.ok
                    THEN ExceptContinue
                    ELSE LET score == BICScore(idx, out.ll, NumRows(X), NFeatures) IN
                         /\ scored' = scored \cup {idx}
                         /\ IF BICBetter(score, best_score)
                            THEN best_score' = score /\ best_model' = model
                            ELSE UNCHANGED <<best_score, best_model>>
                         /\ idx' = idx + 1
                         /\ pc' = pc
    /\ UNCHANGED <<config, X, lengths, returned>>

SelectorBIC_return == strategy = "BIC" /\ ReturnBest

\* -------------------------------------------------------------- SelectorDIC
\* The words other than this_word, in the order self.hwords.items() yields them.
RECURSIVE OtherWordsFrom(_)
OtherWordsFrom(i) ==
    IF i > Len(WordNames) THEN <<>>
    ELSE IF WordNames[i] \in DOMAIN hwords /\ WordNames[i] # this_word
         THEN <<WordNames[i]>> \o OtherWordsFrom(i + 1)
         ELSE OtherWordsFrom(i + 1)
OtherWords == OtherWordsFrom(1)

\* The first position of a score call that raises, 0 when none does.
FirstRaise(outs) ==
    LET bad == {k \in 1..Len(outs) : ~outs[k].ok}
    IN  IF bad = {} THEN 0 ELSE CHOOSE k \in bad : \A j \in bad : k <= j

\* np.sum in place of np.mean.
DICScoreSum(model_score, scores) ==
    IF Len(scores) = 0 THEN NaN
    ELSE model_score - SumSeq(scores)

\* score = model_score - np.mean(scores), times len(scores);
\* np.mean of the empty list is nan.
DICScore(model_score, scores) ==
    IF Len(scores) = 0 THEN NaN
    ELSE model_score * Len(scores) - SumSeq(scores)

\* "if score > highest_score" on floats: False whenever a side is nan.
Greater(score, highest) == score # NaN /\ highest # NaN /\ score > highest

SelectorDIC_begin == Begin("DIC", NegInf)

SelectorDIC_candidate ==
    /\ pc = "loop"
    /\ strategy = "DIC"
    /\ InRange(idx)
    /\ \E ok \in FitOutcomes(X, lengths, idx) :
         LET model == base_model(idx, ok)
             others == OtherWords
         IN
         /\ fitMemo' = fitMemo \cup {FitEntry("candidate", X, lengths, idx, ok)}
         /\ IF ~ok
            THEN \* model is None: the first model.score raises
                 /\ ExceptContinue
                 /\ UNCHANGED scoreMemo
            ELSE \E outs \in [1..Len(others) -> ScoreOut], own \in ScoreOutcomes(model, X, lengths) :
                 /\ \A k \in 1..Len(others) :
                      outs[k] \in ScoreOutcomes(model, hwords[others[k]].X, hwords[others[k]].lengths)
                 /\ LET bad == FirstRaise(outs)
                        called == IF bad = 0 THEN 1..Len(others) ELSE 1..bad
                        otherEntries ==
                            {ScoreEntry(model, hwords[others[k]].X, hwords[others[k]].lengths, outs[k])
                                : k \in called}
                    IN
                    IF bad # 0
                    THEN \* scoring another word raised
                         /\ scoreMemo' = scoreMemo \cup otherEntries
                         /\ ExceptContinue
                    ELSE /\ scoreMemo' = scoreMemo \cup otherEntries
                                            \cup {ScoreEntry(model, X, lengths, own)}
                         /\ IF ~own.ok
                            THEN ExceptContinue
                            ELSE LET score == DICScore(own.ll, [k \in 1..Len(others) |-> outs[k].ll]) IN
                                 /\ scored' = scored \cup {idx}
                                 /\ IF Greater(score, best_score)
                                    THEN best_score' = score /\ best_model' = model
                                    ELSE UNCHANGED <<best_score, best_model>>
                                 /\ idx' = idx + 1
                                 /\ pc' = pc
    /\ UNCHANGED <<config, X, lengths, returned>>

SelectorDIC_return == strategy = "DIC" /\ ReturnBest

\* --------------------------------------------------------------- SelectorCV
\* asl_utils.combine_sequences(split_index_list, sequences): the sequences at
\* the given indices concatenated, with their lengths.
combine_sequences(split_index_list, seqs) ==
    [X |-> [word |-> this_word, segs |-> split_index_list],
     lengths |-> [i \in 1..Len(split_index_list) |-> seqs[split_index_list[i]]]]

\* KFold(n_splits=splits).split(seqs): ValueError when there are fewer
\* samples than splits; otherwise splits folds of consecutive test indices, the
\* first Len(seqs) % splits of them one longer, each with the remaining
\* indices as its training indices.
FoldSize(n, f) == (n \div splits) + (IF f <= n % splits THEN 1 ELSE 0)
FoldStart(n, f) == 1 + SumSeq([g \in 1..(f - 1) |-> FoldSize(n, g)])
RECURSIVE Ascending(_)
Ascending(S) ==
    IF S = {} THEN <<>>
    ELSE LET least == CHOOSE i \in S : \A j \in S : i <= j
         IN  <<least>> \o Ascending(S \ {least})
KFoldSplit(seqs) ==
    LET n == Len(seqs) IN
    IF n < splits THEN [raised |-> TRUE, folds |-> <<>>]
    ELSE [raised |-> FALSE,
          folds |-> [f \in 1..splits |->
                       LET test == FoldStart(n, f)..(FoldStart(n, f) + FoldSize(n, f) - 1)
                       IN  [train |-> Ascending((1..n) \ test), test |-> Ascending(test)]]]

\* "KFold(n_splits=splits)(self.sequences)": the KFold object of
\* sklearn.model_selection has split() and get_n_splits() and no __call__, so
\* calling it raises TypeError before any fold is produced.
KFoldCall(seqs) == [raised |-> TRUE, folds |-> <<>>]

\* The body of "for train_idx, test_idx in ...", run over folds k, k+1, ...
\* acc is [X, lengths, fits, scores, total, raised]; outs[k] gives the
\* outcome of the fit and of the score call of fold k.
RECURSIVE CVFolds(_, _, _, _, _)
CVFolds(folds, n, outs, k, acc) ==
    IF k > Len(folds) \/ acc.raised THEN acc
    ELSE LET train_idx == folds[k].train
             test_idx == folds[k].test
             own == combine_sequences(test_idx, sequences)       \* self.X, self.lengths
             test_length == combine_sequences(train_idx, sequences).lengths
             fit == FitEntry("fold", own.X, own.lengths, n, outs[k].fit)
             train_model == IF outs[k].fit THEN [n |-> n, X |-> own.X, lengths |-> own.lengths]
                            ELSE None
             \* train_model.score(train_idx, test_length): the index array is
             \* what is passed as the observations
             arg == [word |-> "train_idx", segs |-> train_idx]
             sc == ScoreEntry(train_model, arg, test_length, outs[k].sc)
         IN  CVFolds(folds, n, outs, k + 1,
                IF ~outs[k].fit
                THEN [acc EXCEPT !.X = own.X, !.lengths = own.lengths,
                                 !.fits = @ \cup {fit}, !.raised = TRUE]
                ELSE IF ~outs[k].sc.ok
                THEN [acc EXCEPT !.X = own.X, !.lengths = own.lengths,
                                 !.fits = @ \cup {fit}, !.scores = @ \cup {sc},
                                 !.raised = TRUE]
                ELSE [acc EXCEPT !.X = own.X, !.lengths = own.lengths,
                                 !.fits = @ \cup {fit}, !.scores = @ \cup {sc},
                                 !.total = @ + outs[k].sc.ll])

\* The outcomes of one fold: of its fit and, when that succeeds, of its score.
FoldOut ==
    {[fit |-> FALSE, sc |-> [ok |-> FALSE, ll |-> 0]]} \cup [fit : {TRUE}, sc : ScoreOut]
FoldRaises(o) == ~o.fit \/ ~o.sc.ok

\* The calls of the fold loop have the outcomes the trainer gave the same
\* calls before, in an earlier call or in this candidate's whole-item fit.
FitConsistent(whole, fits) ==
    \A e \in fits : \A f \in fitMemo \cup {whole} :
        (e.X = f.X /\ e.lengths = f.lengths /\ e.n = f.n) => e.ok = f.ok
ScoreConsistent(scores) ==
    \A e \in scores : \A f \in scoreMemo :
        (e.model = f.model /\ e.X = f.X /\ e.lengths = f.lengths) => e.out = f.out

SelectorCV_begin == Begin("CV", NegInf)

SelectorCV_candidate ==
    /\ pc = "loop"
    /\ strategy = "CV"
    /\ InRange(idx)
    /\ \E ok \in FitOutcomes(X, lengths, idx), kf \in {KFoldCall(sequences)} :
         LET model == base_model(idx, ok)
             whole == FitEntry("candidate", X, lengths, idx, ok)
         IN
         IF kf.raised
         THEN /\ fitMemo' = fitMemo \cup {whole}
              /\ ExceptContinue
              /\ UNCHANGED <<X, lengths, scoreMemo>>
         ELSE \E outs \in [1..Len(kf.folds) -> FoldOut] :
              \* the loop ends at the first failing fold: the folds after it
              \* have no outcome, written here as a repeat of the failure
              /\ \A k \in 2..Len(kf.folds) : FoldRaises(outs[k - 1]) => outs[k] = outs[k - 1]
              /\ \E r \in {CVFolds(kf.folds, idx, outs, 1,
                                [X |-> X, lengths |-> lengths, fits |-> {}, scores |-> {},
                                 total |-> 0, raised |-> FALSE])} :
                   /\ FitConsistent(whole, r.fits)
                   /\ ScoreConsistent(r.scores)
                   /\ fitMemo' = fitMemo \cup {whole} \cup r.fits
                   /\ scoreMemo' = scoreMemo \cup r.scores
                   /\ X' = r.X
                   /\ lengths' = r.lengths
                   /\ IF r.raised
                      THEN ExceptContinue
                      ELSE \* np.mean(scores_arr), times len(scores_arr)
                           /\ scored' = scored \cup {idx}
                           /\ IF Greater(r.total, best_score)
                              THEN best_score' = r.total /\ best_model' = model
                              ELSE UNCHANGED <<best_score, best_model>>
                           /\ idx' = idx + 1
                           /\ pc' = pc
    /\ UNCHANGED <<config, returned>>

SelectorCV_return == strategy = "CV" /\ ReturnBest

\* ------------------------------------------------------------ specification
Next ==
    \/ SelectorConstant_select
    \/ SelectorBIC_begin
    \/ SelectorBIC_candidate
    \/ SelectorBIC_return
    \/ SelectorDIC_begin
    \/ SelectorDIC_candidate
    \/ SelectorDIC_return
    \/ SelectorCV_begin
    \/ SelectorCV_candidate
    \/ SelectorCV_return

Spec == Init /\ [][Next]_vars

SpecRepeat == InitRepeat /\ [][Next]_vars

\* ------------------------------------------------------ what the claims use
Done == pc = "done" /\ Len(returned) >= 1
Result == returned[Len(returned)]
Candidates == MinN..MaxN

\* The target item's entry of the collection.
Own == hwords[this_word]
Others == DOMAIN hwords \ {this_word}

\* The model an n-state fit on the whole item gives.
WholeModel(n) == [n |-> n, X |-> Own.X, lengths |-> Own.lengths]

\* The n-state fit on the whole item was made and succeeded / failed.
FitSucceeded(n) ==
    \E e \in fitMemo : e.X = Own.X /\ e.lengths = Own.lengths /\ e.n = n /\ e.ok
FitFailed(n) ==
    \E e \in fitMemo : e.X = Own.X /\ e.lengths = Own.lengths /\ e.n = n /\ ~e.ok

\* The Fixed-strategy result: the model fitted with n_constant states, if any.
Fallback == IF FitSucceeded(n_constant) THEN WholeModel(n_constant) ELSE None

\* The whole-item model with n states was scored on word w and did not raise.
ScoreCalls(n, w) ==
    {e \in scoreMemo : e.model = WholeModel(n) /\ e.X = hwords[w].X /\ e.lengths = hwords[w].lengths}
HasLogL(n, w) == \E e \in ScoreCalls(n, w) : e.out.ok
LogL(n, w) == (CHOOSE e \in ScoreCalls(n, w) : TRUE).out.ll

RECURSIVE SumLogL(_, _)
SumLogL(n, ws) ==
    IF ws = {} THEN 0
    ELSE LET w == CHOOSE v \in ws : TRUE IN LogL(n, w) + SumLogL(n, ws \ {w})

\* The smallest n of S at which f is greatest.
FirstBest(S, f(_)) ==
    CHOOSE n \in S : \A m \in S : f(n) > f(m) \/ (f(n) = f(m) /\ n <= m)

\* C1: whenever select() returns a model, its state count is n_constant or
\* lies in [min_n_components, max_n_components].
C1_StateCountInBounds ==
    \A k \in 1..Len(returned) :
        returned[k] # None =>
            \/ returned[k].n = n_constant
            \/ (MinN <= returned[k].n /\ returned[k].n <= MaxN)

C1_Witness ==
    /\ Done
    /\ Result # None
    /\ Result.n # n_constant
    /\ Result.n \in Candidates

\* C2: SelectorBIC returns the model of the smallest n minimising
\* -2*logL(n) + (n^2 + 2*n*d - 1)*ln(N) over the candidates whose fit and
\* score both succeeded, never a candidate whose fit failed, and the model
\* fitted with n_constant when every candidate fails.
BICSucceeded == {n \in Candidates : FitSucceeded(n) /\ HasLogL(n, this_word)}
NegBIC(n) ==
    2 * 1000 * LogL(n, this_word)
        - (n * n + 2 * n * NFeatures - 1) * LnMilli(SumSeq(Own.lengths))
C2_BICSelectsMinimum ==
    (strategy = "BIC" /\ Done) =>
        /\ Result = IF BICSucceeded = {} THEN Fallback
                    ELSE WholeModel(FirstBest(BICSucceeded, NegBIC))
        /\ \A n \in Candidates : FitFailed(n) => Result.n # n

C2_Witness ==
    /\ strategy = "BIC"
    /\ Done
    /\ Cardinality(BICSucceeded) >= 2
    /\ Result.n # n_constant
    /\ \E n, m \in BICSucceeded : n # m /\ NegBIC(n) = NegBIC(m) /\ Result.n = n

\* C3 as stated: SelectorDIC returns the model of the smallest n with the
\* greatest own_score(n) - mean(other items' scores under the same model)
\* among the candidates that were scored.
DICScored ==
    {n \in Candidates :
        /\ FitSucceeded(n)
        /\ HasLogL(n, this_word)
        /\ \A w \in Others : HasLogL(n, w)}
\* own - mean(others), times the number of others
DICTimesM(n) == LogL(n, this_word) * Cardinality(Others) - SumLogL(n, Others)
C3_DICSelectsMaximum ==
    (strategy = "DIC" /\ Done /\ DICScored # {}) =>
        IF Others = {}
        THEN \E n \in DICScored : Result = WholeModel(n)
        ELSE Result = WholeModel(FirstBest(DICScored, DICTimesM))

\* C3 amended: the above when the collection holds at least one other item;
\* when the target item is the only one, or no candidate was scored, the
\* Fixed-strategy model is returned.
C3_DICSelectsMaximumGivenOthers ==
    (strategy = "DIC" /\ Done) =>
        Result = IF Others # {} /\ DICScored # {}
                 THEN WholeModel(FirstBest(DICScored, DICTimesM))
                 ELSE Fallback

C3_Witness ==
    /\ strategy = "DIC"
    /\ Done
    /\ Cardinality(Others) >= 2
    /\ Cardinality(DICScored) >= 2
    /\ Result.n # n_constant
    /\ Result.n # MinN
    /\ \E w, v \in Others : LogL(Result.n, w) # LogL(Result.n, v)

\* C4: SelectorCV scores each candidate by the mean held-out log-likelihood
\* of models fitted on the training segments of each fold, and selects the n
\* with the highest mean.
TrainPart(f) == combine_sequences(KFoldSplit(sequences).folds[f].train, sequences)
TestPart(f) == combine_sequences(KFoldSplit(sequences).folds[f].test, sequences)
TrainFits(n, f) ==
    {e \in fitMemo : e.n = n /\ e.X = TrainPart(f).X /\ e.lengths = TrainPart(f).lengths}
HeldOutCalls(n, f) ==
    {e \in scoreMemo :
        /\ e.model = [n |-> n, X |-> TrainPart(f).X, lengths |-> TrainPart(f).lengths]
        /\ e.X = TestPart(f).X
        /\ e.lengths = TestPart(f).lengths}
HeldOutOK(n, f) == \E e \in HeldOutCalls(n, f) : e.out.ok
CVScored == {n \in Candidates : \A f \in 1..splits : HeldOutOK(n, f)}
RECURSIVE HeldOutSum(_, _)
HeldOutSum(n, f) ==
    IF f = 0 THEN 0
    ELSE (CHOOSE e \in HeldOutCalls(n, f) : TRUE).out.ll + HeldOutSum(n, f - 1)
HeldOutTotal(n) == HeldOutSum(n, splits)
C4_CVSelectsBestHeldOut ==
    (strategy = "CV" /\ Done /\ Len(sequences) >= splits) =>
        /\ \A n \in Candidates : \A f \in 1..splits : TrainFits(n, f) # {}
        /\ CVScored # {} => Result.n = FirstBest(CVScored, HeldOutTotal)

\* C5: for BIC, DIC and CV, select() returns None only when the
\* Fixed-strategy fit itself failed.
C5_NoneOnlyIfFallbackFailed ==
    (strategy # "Constant") =>
        \A k \in 1..Len(returned) : returned[k] = None => FitFailed(n_constant)

C5_Witness ==
    /\ strategy # "Constant"
    /\ Done
    /\ FitSucceeded(n_constant)
    /\ \A n \in Candidates : n # n_constant => FitFailed(n)
    /\ Result # None

\* C6: a fit or score failure on a candidate never leaves select(): the
\* candidate is skipped, the provisional best model and score stay as they
\* were, and the search goes on with the next candidate.
C6_FailureSkipsCandidate ==
    [][(pc = "loop" /\ InRange(idx) /\ idx \notin scored') =>
          /\ pc' = "loop"
          /\ idx' = idx + 1
          /\ best_model' = best_model
          /\ best_score' = best_score]_vars

C6_Witness ==
    /\ strategy \in {"BIC", "DIC"}
    /\ pc = "loop"
    /\ idx > MinN
    /\ (idx - 1) \notin scored
    /\ scored # {}
    /\ best_model.n \in scored
    /\ best_model.n # n_constant

\* C7: two select() calls in a row on one selector return models with the
\* same state count.
StateCount(m) == m.n
C7_SelectTwiceSameCount ==
    \A j, k \in 1..Len(returned) : StateCount(returned[j]) = StateCount(returned[k])

C7_Witness ==
    /\ Len(returned) >= 2
    /\ pc = "done"
    /\ returned[1] # None
    /\ \E n \in Candidates : FitFailed(n)

\* C8: with fewer sequences than the 3 folds, SelectorCV.select() does not
\* raise, scores no candidate and returns the Fixed-strategy model.
C8_TooFewSequencesFallsBack ==
    (strategy = "CV" /\ Len(sequences) < splits) =>
        /\ pc # "raised"
        /\ scored = {}
        /\ Done => Result = Fallback

C8_Witness ==
    /\ strategy = "CV"
    /\ Len(sequences) = 1
    /\ Done
    /\ Result # None
    /\ \E n \in Candidates : n # n_constant /\ FitSucceeded(n)

\* C9: in SelectorCV a candidate is skipped entirely only when every one of
\* its folds fails; otherwise it is scored over its successful folds.
FoldFailed(n, f) ==
    \/ \E e \in fitMemo : e.site = "fold" /\ e.n = n /\ ~e.ok
                          /\ e.X \in {TrainPart(f).X, TestPart(f).X}
    \/ \E e \in scoreMemo : e.model.n = n /\ ~e.out.ok
                          /\ e.model.X \in {TrainPart(f).X, TestPart(f).X}
C9_FoldFailureSkipsOnlyFold ==
    (strategy = "CV" /\ Done /\ Len(sequences) >= splits) =>
        \A n \in Candidates : n \notin scored => \A f \in 1..splits : FoldFailed(n, f)

\* C10: select() leaves self.X and self.lengths equal to the target item's
\* entry of the collection, every whole-item fit is made on that entry, and
\* the collection mappings are not written.
C10_ObservationsUnchanged ==
    /\ [](/\ X = Own.X
          /\ lengths = Own.lengths
          /\ sequences = words[this_word]
          /\ hwords = Xlengths(words)
          /\ \A e \in fitMemo :
                e.site \in {"fallback", "candidate"} =>
                    (e.X = Own.X /\ e.lengths = Own.lengths))
    /\ [][words' = words /\ hwords' = hwords]_vars

C10_Witness ==
    /\ strategy = "CV"
    /\ Len(sequences) >= splits
    /\ Done
    /\ \E e \in fitMemo : e.site = "candidate"
====
